---- MODULE Spec2Model ----
(***************************************************************************)
(* cf.rs: a command string drives one painter over a pixel buffer.         *)
(*                                                                         *)
(*   src/src/buffer.rs    CFRBuffer       width, height, data              *)
(*   src/src/painter.rs   CFRPainter      direction, color, x, y           *)
(*   src/src/executor.rs  CommandExecutor commands, index, block_starts    *)
(*   src/src/main.rs      main            time, frames                     *)
(*                                                                         *)
(* The command string is a Rust String: a sequence of UTF-8 bytes.  The    *)
(* executor measures it in bytes (len, replace_range) and reads it in      *)
(* characters (chars().nth), so the model keeps the bytes and decodes.     *)
(* Sizes, coordinates and the time of main() are u32.  Where a u32        *)
(* operation leaves the range the program panics when it is built with     *)
(* overflow checks and goes on with the value modulo 2^32 when it is built *)
(* without: the operators take the build as overflow_checks and the        *)
(* actions choose it.  The two builds differ only from the first such      *)
(* operation on.  The executor stands its painter on a cell of the buffer, *)
(* so the buffers of Spec, SpecPainter and SpecMain have at least one      *)
(* column and one row.  SpecBuffer constructs buffers of any size.         *)
(* SpecMain runs the loop of main() with its frame timer.                  *)
(***************************************************************************)
EXTENDS Integers, Sequences, FiniteSets, TLC

VARIABLES commands, index, block_starts, painter, buffer,
          orig, log, trail, ret, runres, caller

vars == <<commands, index, block_starts, painter, buffer,
          orig, log, trail, ret, runres, caller>>

\* ---------------------------------------------------------------- bounds
MaxLen == 3        \* characters in a command string
MaxWidth == 3      \* buffer width  ranges over 1..MaxWidth
MaxHeight == 2     \* buffer height ranges over 1..MaxHeight
MaxSide == 3       \* width and height of the buffers of SpecPainter range over 1..MaxSide
MaxDraws == 1      \* calls of move_forward_and_draw in a behaviour of SpecPainter

\* ----------------------------------------------------------------- enums
CFRColor == {"White", "Black", "Blue", "Green", "Cyan", "Red", "Magenta", "Yellow"}

CFRDirection == {"Up", "UpRight", "Right", "DownRight", "Down", "DownLeft", "Left", "UpLeft"}

\* ------------------------------------------------------------------- u32
\* Sizes, coordinates and the time of main() are u32.  A u32 sum or product
\* can pass 2^32, more than an integer of TLC holds, so the arithmetic is
\* done on 16-bit halves: [hi, lo] stands for hi * 2^16 + lo.  Each
\* operation gives the wrapped value v (what a build without overflow
\* checks computes) and whether the exact result left the u32 range (where a
\* build with overflow checks panics).  The fields of the state hold plain
\* integers: widths, heights and the coordinates a call starts from are
\* below 2^31.
HALF == 65536

half_pair(n) == [hi |-> n \div HALF, lo |-> n % HALF]

\* a + b
add_u32(a, b) ==
    LET lo == a.lo + b.lo
        hi == a.hi + b.hi + (lo \div HALF)
    IN  [v |-> [hi |-> hi % HALF, lo |-> lo % HALF], overflow |-> hi >= HALF]

\* a - b
sub_u32(a, b) ==
    LET lo == a.lo - b.lo
        hi == a.hi - b.hi - (IF lo < 0 THEN 1 ELSE 0)
    IN  [v |-> [hi |-> (hi + HALF) % HALF, lo |-> (lo + HALF) % HALF],
         overflow |-> hi < 0]

\* a < b
lt_u32(a, b) == a.hi < b.hi \/ (a.hi = b.hi /\ a.lo < b.lo)

\* a / 2
half_u32(a) == [hi |-> a.hi \div 2, lo |-> (a.lo + (a.hi % 2) * HALF) \div 2]

\* the exact product of two 16-bit halves, a taken byte by byte
mul_halves(a, b) ==
    LET low == (a % 256) * b
        high == (a \div 256) * b
        lo_sum == (low % HALF) + ((high % 256) * 256)
    IN  [hi |-> (low \div HALF) + (high \div 256) + (lo_sum \div HALF),
         lo |-> lo_sum % HALF]

\* a * b
mul_u32(a, b) ==
    LET ll == mul_halves(a.lo, b.lo)
        lh == mul_halves(a.lo, b.hi)
        hl == mul_halves(a.hi, b.lo)
    IN  [v |-> [hi |-> (ll.hi + lh.lo + hl.lo) % HALF, lo |-> ll.lo],
         overflow |-> \/ (a.hi # 0 /\ b.hi # 0)
                      \/ lh.hi # 0
                      \/ hl.hi # 0
                      \/ ll.hi + lh.lo + hl.lo >= HALF]

\* width * height, the bits above the 32nd dropped (a build without
\* overflow checks)
wrapping_mul(w, h) == mul_u32(half_pair(w), half_pair(h)).v

\* width * height does not fit in a u32 (a build with overflow checks
\* panics)
mul_overflows(w, h) == mul_u32(half_pair(w), half_pair(h)).overflow

\* (n) as usize
as_usize(n) == n.hi * HALF + n.lo

\* ---------------------------------------------------------------- buffer
\* CFRBuffer::new: vec![Black; (width * height) as usize]; cell (x, y) is
\* data[y * width + x], kept here at sequence position y * width + x + 1.
CFRBuffer_new(width, height) ==
    [width |-> width, height |-> height,
     data |-> [i \in 1..as_usize(wrapping_mul(width, height)) |-> "Black"]]

\* --------------------------------------------------------------- painter
CFRPainter_new == [direction |-> "Up", color |-> "White", x |-> 0, y |-> 0]

\* change_color with Red left out of the cycle
change_color_skips_red(c) ==
    CASE c = "White"   -> "Black"
      [] c = "Black"   -> "Blue"
      [] c = "Blue"    -> "Green"
      [] c = "Green"   -> "Cyan"
      [] c = "Cyan"    -> "Magenta"
      [] c = "Red"     -> "Magenta"
      [] c = "Magenta" -> "Yellow"
      [] c = "Yellow"  -> "White"

change_color(c) ==
    CASE c = "White"   -> "Black"
      [] c = "Black"   -> "Blue"
      [] c = "Blue"    -> "Green"
      [] c = "Green"   -> "Cyan"
      [] c = "Cyan"    -> "Red"
      [] c = "Red"     -> "Magenta"
      [] c = "Magenta" -> "Yellow"
      [] c = "Yellow"  -> "White"

\* rotate turning the other way from Left on
rotate_back_from_left(d) ==
    CASE d = "Up"        -> "UpRight"
      [] d = "UpRight"   -> "Right"
      [] d = "Right"     -> "DownRight"
      [] d = "DownRight" -> "Down"
      [] d = "Down"      -> "DownLeft"
      [] d = "DownLeft"  -> "Left"
      [] d = "Left"      -> "DownLeft"
      [] d = "UpLeft"    -> "Up"

rotate(d) ==
    CASE d = "Up"        -> "UpRight"
      [] d = "UpRight"   -> "Right"
      [] d = "Right"     -> "DownRight"
      [] d = "DownRight" -> "Down"
      [] d = "Down"      -> "DownLeft"
      [] d = "DownLeft"  -> "Left"
      [] d = "Left"      -> "UpLeft"
      [] d = "UpLeft"    -> "Up"

\* delta with the arms of UpLeft and DownLeft exchanged
delta_swapped(d) ==
    CASE d = "Up"        -> [dx |-> 0,  dy |-> -1]
      [] d = "UpRight"   -> [dx |-> 1,  dy |-> -1]
      [] d = "Right"     -> [dx |-> 1,  dy |-> 0]
      [] d = "DownRight" -> [dx |-> 1,  dy |-> 1]
      [] d = "Down"      -> [dx |-> 0,  dy |-> 1]
      [] d = "DownLeft"  -> [dx |-> -1, dy |-> -1]
      [] d = "Left"      -> [dx |-> -1, dy |-> 0]
      [] d = "UpLeft"    -> [dx |-> -1, dy |-> 1]

\* the match on self.direction that sets dx, dy
delta(d) ==
    CASE d = "Up"        -> [dx |-> 0,  dy |-> -1]
      [] d = "UpRight"   -> [dx |-> 1,  dy |-> -1]
      [] d = "Right"     -> [dx |-> 1,  dy |-> 0]
      [] d = "DownRight" -> [dx |-> 1,  dy |-> 1]
      [] d = "Down"      -> [dx |-> 0,  dy |-> 1]
      [] d = "DownLeft"  -> [dx |-> -1, dy |-> 1]
      [] d = "Left"      -> [dx |-> -1, dy |-> 0]
      [] d = "UpLeft"    -> [dx |-> -1, dy |-> -1]

I32_MAX == 2147483647

\* (self.x as i32 + dx) as u32 for a coordinate v below 2^31: the sum leaves
\* the i32 range from I32_MAX on, and -1 becomes 2^32 - 1
add_i32(v, d, overflow_checks) ==
    IF v = I32_MAX /\ d = 1
    THEN [panic |-> overflow_checks, v |-> [hi |-> HALF \div 2, lo |-> 0]]
    ELSE IF v = 0 /\ d = -1
    THEN [panic |-> FALSE, v |-> [hi |-> HALF - 1, lo |-> HALF - 1]]
    ELSE [panic |-> FALSE, v |-> half_pair(v + d)]

\* wrap_axis without the `else if`: the high edge is stepped over
wrap_axis_no_high_wrap(v, d, size, overflow_checks) ==
    LET edge == sub_u32(half_pair(size), half_pair(1))
    IN  IF v = 0 /\ d = -1
        THEN [panic |-> overflow_checks /\ edge.overflow, v |-> edge.v]
        ELSE add_i32(v, d, overflow_checks)

\* one axis of the move: the if / else if / else on (self.x, dx, buffer.width).
\* buffer.width - 1 is computed by the first branch and by the condition of
\* the second, whose left operand it is; on a width of 0 it leaves the u32
\* range.  The result is the new coordinate v, in halves, or a panic.
wrap_axis(v, d, size, overflow_checks) ==
    LET edge == sub_u32(half_pair(size), half_pair(1))
    IN  IF v = 0 /\ d = -1
        THEN [panic |-> overflow_checks /\ edge.overflow, v |-> edge.v]
        ELSE IF overflow_checks /\ edge.overflow
        THEN [panic |-> TRUE, v |-> half_pair(v)]
        ELSE IF half_pair(v) = edge.v /\ d = 1
        THEN [panic |-> FALSE, v |-> half_pair(0)]
        ELSE add_i32(v, d, overflow_checks)

\* a u32 coordinate as a field of the painter: the integer, or the halves
\* themselves from 2^31 on, which no integer of TLC holds
coord(v) == IF v.hi < HALF \div 2 THEN as_usize(v) ELSE v

\* move_forward_and_draw drawing before it moves: the cell left is painted
move_forward_and_draw_old_cell(p, b, overflow_checks) ==
    LET dl == delta(p.direction)
        ax == wrap_axis(p.x, dl.dx, b.width, overflow_checks)
        ay == wrap_axis(p.y, dl.dy, b.height, overflow_checks)
        row == mul_u32(half_pair(p.y), half_pair(b.width))
        cell == add_u32(row.v, half_pair(p.x))
        px == [p EXCEPT !.x = coord(ax.v)]
        pxy == [px EXCEPT !.y = coord(ay.v)]
    IN  IF ax.panic
        THEN [panic |-> TRUE, painter |-> p, buffer |-> b]
        ELSE IF ay.panic
        THEN [panic |-> TRUE, painter |-> px, buffer |-> b]
        ELSE IF \/ overflow_checks /\ (row.overflow \/ cell.overflow)
                \/ ~lt_u32(cell.v, half_pair(Len(b.data)))
        THEN [panic |-> TRUE, painter |-> pxy, buffer |-> b]
        ELSE [panic |-> FALSE, painter |-> pxy,
              buffer |-> [b EXCEPT !.data =
                             [b.data EXCEPT ![as_usize(cell.v) + 1] = p.color]]]

\* move_forward_and_draw: the painter and the buffer after the call, and
\* whether the call panicked: on a u32 operation that left its range, in a
\* build with overflow checks, or on buffer.data[index] out of range.  The
\* assignments made before a panic stay: none when the x axis panics
\* (lines 144, 145), self.x when the y axis panics (lines 152, 153), self.x
\* and self.y when the index does (lines 159, 160).  index is the u32
\* self.y * buffer.width + self.x of the new position.
move_forward_and_draw(p, b, overflow_checks) ==
    LET dl == delta(p.direction)
        ax == wrap_axis(p.x, dl.dx, b.width, overflow_checks)
        ay == wrap_axis(p.y, dl.dy, b.height, overflow_checks)
        row == mul_u32(ay.v, half_pair(b.width))
        cell == add_u32(row.v, ax.v)
        px == [p EXCEPT !.x = coord(ax.v)]
        pxy == [px EXCEPT !.y = coord(ay.v)]
    IN  IF ax.panic
        THEN [panic |-> TRUE, painter |-> p, buffer |-> b]
        ELSE IF ay.panic
        THEN [panic |-> TRUE, painter |-> px, buffer |-> b]
        ELSE IF \/ overflow_checks /\ (row.overflow \/ cell.overflow)
                \/ ~lt_u32(cell.v, half_pair(Len(b.data)))
        THEN [panic |-> TRUE, painter |-> pxy, buffer |-> b]
        ELSE [panic |-> FALSE, painter |-> pxy,
              buffer |-> [b EXCEPT !.data =
                             [b.data EXCEPT ![as_usize(cell.v) + 1] = p.color]]]

\* --------------------------------------------------------------- strings
\* Characters of the model: the seven the executor dispatches on, a space
\* (any other one-byte character) and e-acute (U+00E9), whose UTF-8
\* encoding is the two bytes C3 A9.
EACUTE == "U+00E9"
LEAD == "xC3"
CONT == "xA9"
NoChar == "None"

Chars == {"C", "F", "R", "S", "[", "]", "|", " ", EACUTE}

RECURSIVE to_bytes(_)
to_bytes(cs) ==
    IF cs = <<>> THEN <<>>
    ELSE (IF Head(cs) = EACUTE THEN <<LEAD, CONT>> ELSE <<Head(cs)>>) \o to_bytes(Tail(cs))

\* str::chars: decode the bytes into characters
RECURSIVE chars(_)
chars(s) ==
    IF s = <<>> THEN <<>>
    ELSE IF Head(s) = LEAD THEN <<EACUTE>> \o chars(SubSeq(s, 3, Len(s)))
    ELSE <<Head(s)>> \o chars(Tail(s))

\* Iterator::nth on chars(): the n-th character, counted from 0, or None
nth(cs, n) == IF n < Len(cs) THEN cs[n + 1] ELSE NoChar

\* str::is_char_boundary: 0, len, and every byte that is not a continuation
is_char_boundary(s, i) ==
    \/ i = 0
    \/ i = Len(s)
    \/ (i < Len(s) /\ s[i + 1] # CONT)

\* String::replace_range(i..=i, t) with a one-byte t: panics unless i and
\* i + 1 are character boundaries
replace_range(s, i, t) ==
    IF is_char_boundary(s, i) /\ is_char_boundary(s, i + 1)
    THEN [panic |-> FALSE, s |-> [s EXCEPT ![i + 1] = t]]
    ELSE [panic |-> TRUE, s |-> s]

\* -------------------------------------------------------------- executor
EndOfCommands == "End of commands"
UnmatchedClose == "Unmatched ]"
Panic == "panic"

\* CommandExecutor::new centering with width / 2, height / 2
CommandExecutor_new_half(cmds, b, overflow_checks) ==
    [panic |-> FALSE,
     commands |-> cmds, index |-> 0, block_starts |-> <<>>,
     painter |-> [CFRPainter_new EXCEPT !.x = b.width \div 2,
                                        !.y = b.height \div 2],
     buffer |-> b]

\* CommandExecutor::new: the painter of CFRPainter::new moved to
\* ((width - 1) / 2, (height - 1) / 2), index 0, no open block.  On a width
\* or height of 0 the u32 subtraction leaves its range: a panic in a build
\* with overflow checks, (2^32 - 1) / 2 in a build without.
CommandExecutor_new(cmds, b, overflow_checks) ==
    LET w1 == sub_u32(half_pair(b.width), half_pair(1))
        h1 == sub_u32(half_pair(b.height), half_pair(1))
    IN  [panic |-> overflow_checks /\ (w1.overflow \/ h1.overflow),
         commands |-> cmds, index |-> 0, block_starts |-> <<>>,
         painter |-> [CFRPainter_new EXCEPT !.x = as_usize(half_u32(w1.v)),
                                            !.y = as_usize(half_u32(h1.v))],
         buffer |-> b]

\* at_end letting the cursor stand on the length
at_end_strict(cmds, idx) == idx > Len(cmds)

\* the test that opens step(): self.state.index >= self.state.commands.len()
at_end(cmds, idx) == idx >= Len(cmds)

\* self.state.index += 1 at the end of step()
advance(e) == [e EXCEPT !.index = @ + 1]

\* the 'C' arm dispatched to rotate
recolor_rotates(e) == advance([e EXCEPT !.painter.direction = rotate(@)])

\* the 'C' arm of step()
recolor(e) == advance([e EXCEPT !.painter.color = change_color(@)])

\* the 'R' arm of step()
turn(e) == advance([e EXCEPT !.painter.direction = rotate(@)])

\* the 'S' arm without its assignment
pause_silent(e) == advance(e)

\* the 'S' arm of step(): sleep = true
pause(e) == advance([e EXCEPT !.sleep = TRUE])

\* the '[' arm of step(): push index + 1
open_block(e) == advance([e EXCEPT !.block_starts = Append(@, e.index + 1)])

\* close_block reading the top of the stack without popping it
close_block_keeps_entry(e) ==
    IF e.block_starts # <<>>
    THEN LET block_start == e.block_starts[Len(e.block_starts)]
             r == replace_range(e.commands, e.index, "|")
         IN  IF r.panic
             THEN [e EXCEPT !.res = Panic]
             ELSE [e EXCEPT !.commands = r.s, !.index = block_start]
    ELSE [e EXCEPT !.res = UnmatchedClose]

\* close_block writing the '|' before it looks at the stack
close_block_flips_first(e) ==
    LET r == replace_range(e.commands, e.index, "|")
    IN  IF r.panic THEN [e EXCEPT !.res = Panic]
        ELSE IF e.block_starts # <<>>
        THEN [e EXCEPT !.block_starts = SubSeq(@, 1, Len(@) - 1), !.commands = r.s,
                       !.index = e.block_starts[Len(e.block_starts)]]
        ELSE [e EXCEPT !.commands = r.s, !.res = UnmatchedClose]

\* the ']' arm of step(): pop the block start, write '|' over the byte at
\* index and jump back without advancing; with no open block, the error
close_block(e) ==
    IF e.block_starts # <<>>
    THEN LET block_start == e.block_starts[Len(e.block_starts)]
             popped == SubSeq(e.block_starts, 1, Len(e.block_starts) - 1)
             r == replace_range(e.commands, e.index, "|")
         IN  IF r.panic
             THEN [e EXCEPT !.block_starts = popped, !.res = Panic]
             ELSE [e EXCEPT !.block_starts = popped, !.commands = r.s,
                            !.index = block_start]
    ELSE [e EXCEPT !.res = UnmatchedClose]

\* reopen_block without the advance
reopen_block_stays(e) ==
    LET r == replace_range(e.commands, e.index, "]")
    IN  IF r.panic THEN [e EXCEPT !.res = Panic]
        ELSE [e EXCEPT !.commands = r.s]

\* the '|' arm of step(): write ']' over the byte at index, then advance
reopen_block(e) ==
    LET r == replace_range(e.commands, e.index, "]")
    IN  IF r.panic THEN [e EXCEPT !.res = Panic]
        ELSE advance([e EXCEPT !.commands = r.s])

\* the 'F' arm of step(); a panic of move_forward_and_draw leaves the
\* painter as far as the call has moved it
forward(e, overflow_checks) ==
    LET m == move_forward_and_draw(e.painter, e.buffer, overflow_checks)
    IN  IF m.panic THEN [e EXCEPT !.res = Panic, !.painter = m.painter]
        ELSE advance([e EXCEPT !.painter = m.painter, !.buffer = m.buffer])

\* CommandExecutor::step as a function of the executor's fields: the fields
\* after the call, the result (Ok, an Err string, or a panic), the bool of
\* an Ok result and the character that was dispatched on.
step(cmds, idx, bs, p, b, overflow_checks) ==
    LET same == [commands |-> cmds, index |-> idx, block_starts |-> bs,
                 painter |-> p, buffer |-> b,
                 res |-> "Ok", sleep |-> FALSE, c |-> NoChar]
    IN
    IF at_end(cmds, idx) THEN [same EXCEPT !.res = EndOfCommands]
    ELSE
    LET c == nth(chars(cmds), idx)
        e == [same EXCEPT !.c = c]
    IN
    IF c = NoChar THEN [same EXCEPT !.res = Panic]
    ELSE CASE c = "C" -> recolor(e)
           [] c = "F" -> forward(e, overflow_checks)
           [] c = "R" -> turn(e)
           [] c = "S" -> pause(e)
           [] c = "[" -> open_block(e)
           [] c = "]" -> close_block(e)
           [] c = "|" -> reopen_block(e)
           [] OTHER -> advance(e)

\* caller is the state of main() around its loop over step(); the other
\* callers keep none.
NoCaller == [pc |-> "none"]

NoRet == [call |-> "new", res |-> "Ok", sleep |-> FALSE, pos |-> <<>>]

\* ------------------------------------------------------------------ Spec
\* The state after CommandExecutor::new(commands, &mut CFRBuffer::new(w, h)).
\* orig remembers the string as given, log the characters dispatched by the
\* successful steps and trail the value of index at each of them, ret the
\* last call and what it returned, runres what run() has returned ("running"
\* while it has not).
Init ==
    \E n \in 0..MaxLen, w \in 1..MaxWidth, h \in 1..MaxHeight :
      \E cs \in [1..n -> Chars] :
        \E e \in {CommandExecutor_new(to_bytes(cs), CFRBuffer_new(w, h),
                                      overflow_checks) :
                    overflow_checks \in BOOLEAN} :
            /\ commands = e.commands
            /\ index = e.index
            /\ block_starts = e.block_starts
            /\ painter = e.painter
            /\ buffer = e.buffer
            /\ orig = to_bytes(cs)
            /\ log = <<>>
            /\ trail = <<>>
            /\ caller = NoCaller
            /\ ret = NoRet
            /\ runres = IF e.panic THEN Panic ELSE "running"

\* One iteration of the loop of run(): call step(), go on after Ok, break
\* with Ok(()) on "End of commands", return any other Err.
Run ==
    /\ runres = "running"
    /\ \E s \in {step(commands, index, block_starts, painter, buffer,
                      overflow_checks) : overflow_checks \in BOOLEAN} :
           /\ commands' = s.commands
           /\ index' = s.index
           /\ block_starts' = s.block_starts
           /\ painter' = s.painter
           /\ buffer' = s.buffer
           /\ log' = IF s.res = "Ok" THEN Append(log, s.c) ELSE log
           /\ trail' = IF s.res = "Ok" THEN Append(trail, index) ELSE trail
           /\ ret' = [call |-> "step", res |-> s.res, sleep |-> s.sleep, pos |-> <<>>]
           /\ runres' = CASE s.res = "Ok" -> "running"
                          [] s.res = EndOfCommands -> "Ok"
                          [] s.res = UnmatchedClose -> "Err"
                          [] OTHER -> Panic
    /\ UNCHANGED <<orig, caller>>

\* CommandExecutor::position: (self.painter.x, self.painter.y)
Position ==
    /\ runres # Panic
    /\ ret.call # "position"
    /\ ret' = [call |-> "position", res |-> "Ok", sleep |-> FALSE,
               pos |-> <<painter.x, painter.y>>]
    /\ UNCHANGED <<commands, index, block_starts, painter, buffer, orig, log, trail, caller, runres>>

\* A call of step() by the caller after run() has returned, as the example in
\* the documentation of step() makes after its loop.
StepAgain ==
    /\ runres \in {"Ok", "Err"}
    /\ \E s \in {step(commands, index, block_starts, painter, buffer,
                      overflow_checks) : overflow_checks \in BOOLEAN} :
           /\ commands' = s.commands
           /\ index' = s.index
           /\ block_starts' = s.block_starts
           /\ painter' = s.painter
           /\ buffer' = s.buffer
           /\ log' = IF s.res = "Ok" THEN Append(log, s.c) ELSE log
           /\ trail' = IF s.res = "Ok" THEN Append(trail, index) ELSE trail
           /\ ret' = [call |-> "step", res |-> s.res, sleep |-> s.sleep, pos |-> <<>>]
    /\ UNCHANGED <<orig, runres, caller>>

Next == Run \/ Position \/ StepAgain

Spec == Init /\ [][Next]_vars

\* ----------------------------------------------------------- SpecPainter
\* The painter on its own, as the tests of painter.rs drive it: a painter
\* with any direction and color on any cell of a new buffer, then calls of
\* its three methods.  log counts the draws, ret.call names the last call.
PainterInit ==
    \E w \in 1..MaxSide, h \in 1..MaxSide :
      \E x \in 0..(w - 1), y \in 0..(h - 1), d \in CFRDirection, c \in CFRColor :
        /\ painter = [direction |-> d, color |-> c, x |-> x, y |-> y]
        /\ buffer = CFRBuffer_new(w, h)
        /\ commands = <<>>
        /\ index = 0
        /\ block_starts = <<>>
        /\ orig = <<>>
        /\ log = <<>>
        /\ trail = <<>>
        /\ caller = NoCaller
        /\ ret = NoRet
        /\ runres = "none"

ChangeColor ==
    /\ runres = "none"
    /\ painter' = [painter EXCEPT !.color = change_color(@)]
    /\ ret' = [NoRet EXCEPT !.call = "change_color"]
    /\ UNCHANGED <<commands, index, block_starts, buffer, orig, log, trail, caller, runres>>

Rotate ==
    /\ runres = "none"
    /\ painter' = [painter EXCEPT !.direction = rotate(@)]
    /\ ret' = [NoRet EXCEPT !.call = "rotate"]
    /\ UNCHANGED <<commands, index, block_starts, buffer, orig, log, trail, caller, runres>>

MoveForwardAndDraw ==
    /\ runres = "none"
    /\ Len(log) < MaxDraws
    /\ \E m \in {move_forward_and_draw(painter, buffer, overflow_checks) :
                   overflow_checks \in BOOLEAN} :
           /\ painter' = m.painter
           /\ buffer' = m.buffer
           /\ runres' = IF m.panic THEN Panic ELSE "none"
           /\ ret' = [NoRet EXCEPT !.call = "move_forward_and_draw",
                                   !.res = IF m.panic THEN Panic ELSE "Ok"]
    /\ log' = Append(log, "F")
    /\ UNCHANGED <<commands, index, block_starts, orig, trail, caller>>

PainterNext == ChangeColor \/ Rotate \/ MoveForwardAndDraw

SpecPainter == PainterInit /\ [][PainterNext]_vars

\* -------------------------------------------------- buffer construction
\* main(): CFRBuffer::new(args.width, args.height), then every cell set to
\* args.background.  Before the call buffer holds the two arguments; runres
\* is "args" before the call, "built" after it, "filled" after the fill and
\* Panic when the constructor has panicked.  The sizes are the small ones
\* and some whose product passes 2^32 and leaves few cells when wrapped.
SmallArgs == (0..MaxSide) \X (0..MaxSide)

BigArgs == {<<65536, 65536>>, <<1073741825, 4>>, <<4, 1073741825>>}

BufferInit ==
    \E a \in SmallArgs \cup BigArgs :
        /\ buffer = [width |-> a[1], height |-> a[2]]
        /\ commands = <<>>
        /\ index = 0
        /\ block_starts = <<>>
        /\ painter = CFRPainter_new
        /\ orig = <<>>
        /\ log = <<>>
        /\ trail = <<>>
        /\ caller = NoCaller
        /\ ret = NoRet
        /\ runres = "args"

\* CFRBuffer::new; the build decides whether the overflowing product panics
\* or wraps
NewBuffer ==
    /\ runres = "args"
    /\ \E overflow_checks \in BOOLEAN :
          IF overflow_checks /\ mul_overflows(buffer.width, buffer.height)
          THEN /\ runres' = Panic
               /\ UNCHANGED buffer
          ELSE /\ runres' = "built"
               /\ buffer' = CFRBuffer_new(buffer.width, buffer.height)
    /\ UNCHANGED <<commands, index, block_starts, painter, orig, log, trail, caller, ret>>

\* buffer.data.iter_mut().for_each(|c| *c = args.background)
Fill ==
    /\ runres = "built"
    /\ \E background \in CFRColor :
          buffer' = [buffer EXCEPT !.data = [i \in DOMAIN @ |-> background]]
    /\ runres' = "filled"
    /\ UNCHANGED <<commands, index, block_starts, painter, orig, log, trail, caller, ret>>

BufferNext == NewBuffer \/ Fill

SpecBuffer == BufferInit /\ [][BufferNext]_vars

\* ------------------------------------------------------------------ main
\* main(): the buffer filled with the background, an executor on it, then
\* the loop  while let Ok((sleep, buf)) = executor.step()  that counts 20 ms
\* for a pause when the output is a GIF and keeps a frame when the time has
\* reached the interval.  caller.pc is "loop" inside the loop, "saved" after
\* it and Panic when a step has panicked; frames holds the cells of the
\* images kept.  time and interval are u32 values, kept in halves.
QUANTUM == 20

Intervals == {1, 10, 20, 30}

\* time += 20; if time >= args.interval { time -= args.interval; frames.push(img) }
\* The addition is a u32 one: past 2^32 - 1 it panics in a build with
\* overflow checks and wraps in a build without.  The subtraction is made
\* only when time >= interval and never leaves the range.
pause_taken(c, b, overflow_checks) ==
    LET time == add_u32(c.time, half_pair(QUANTUM))
    IN  IF overflow_checks /\ time.overflow
        THEN [c EXCEPT !.pc = Panic]
        ELSE IF ~lt_u32(time.v, c.interval)
        THEN [c EXCEPT !.time = sub_u32(time.v, c.interval).v,
                       !.frames = Append(@, b.data)]
        ELSE [c EXCEPT !.time = time.v]

MainInit ==
    \E n \in 0..MaxLen, w \in 1..MaxWidth, h \in 1..MaxHeight :
      \E cs \in [1..n -> Chars], background \in CFRColor,
         animation \in BOOLEAN, interval \in Intervals :
        \E e \in {CommandExecutor_new(
                        to_bytes(cs),
                        [CFRBuffer_new(w, h) EXCEPT
                            !.data = [i \in DOMAIN @ |-> background]],
                        overflow_checks) : overflow_checks \in BOOLEAN} :
            /\ commands = e.commands
            /\ index = e.index
            /\ block_starts = e.block_starts
            /\ painter = e.painter
            /\ buffer = e.buffer
            /\ orig = to_bytes(cs)
            /\ log = <<>>
            /\ trail = <<>>
            /\ ret = NoRet
            /\ runres = "none"
            /\ caller = [pc |-> IF e.panic THEN Panic ELSE "loop",
                         animation |-> animation,
                         interval |-> half_pair(interval),
                         time |-> half_pair(0), frames |-> <<>>]

\* one turn of the loop of main() in one build: what step() gave and the
\* caller after the turn (the loop ends on any Err)
loop_turn(cmds, idx, bs, p, b, c, overflow_checks) ==
    LET s == step(cmds, idx, bs, p, b, overflow_checks)
    IN  [s |-> s,
         caller |-> CASE s.res = Panic -> [c EXCEPT !.pc = Panic]
                      [] s.res \in {EndOfCommands, UnmatchedClose} ->
                           [c EXCEPT !.pc = "saved"]
                      [] OTHER ->
                           IF s.sleep /\ c.animation
                           THEN pause_taken(c, s.buffer, overflow_checks)
                           ELSE c]

\* one turn of the loop of main(), in either build
MainStep ==
    /\ caller.pc = "loop"
    /\ \E t \in {loop_turn(commands, index, block_starts, painter, buffer,
                           caller, overflow_checks) :
                     overflow_checks \in BOOLEAN} :
           /\ commands' = t.s.commands
           /\ index' = t.s.index
           /\ block_starts' = t.s.block_starts
           /\ painter' = t.s.painter
           /\ buffer' = t.s.buffer
           /\ log' = IF t.s.res = "Ok" THEN Append(log, t.s.c) ELSE log
           /\ trail' = IF t.s.res = "Ok" THEN Append(trail, index) ELSE trail
           /\ ret' = [call |-> "step", res |-> t.s.res, sleep |-> t.s.sleep,
                      pos |-> <<>>]
           /\ caller' = t.caller
    /\ UNCHANGED <<orig, runres>>

MainNext == MainStep

SpecMain == MainInit /\ [][MainNext]_vars

\* ================================================================ claims

\* "[" body "]" with no bracket and no '|' in the body
PlainLoop(cs) ==
    /\ Len(cs) >= 2
    /\ cs[1] = "["
    /\ cs[Len(cs)] = "]"
    /\ \A i \in 2..(Len(cs) - 1) : cs[i] \notin {"[", "]", "|"}

\* C1: for every body of non-bracket commands (C, F, R, S, no-op characters),
\* run() on "[" body "]" does not fail, and when it has returned Ok the cursor
\* is at the string's length and the characters executed are: "[", the body,
\* the "]" that jumps back, the body a second time, and the "|" that ends the
\* loop; so the body ran exactly twice, in order.
C1_LoopBodyRunsTwice ==
    LET cs == chars(orig)
        body == SubSeq(cs, 2, Len(cs) - 1)
    IN  PlainLoop(cs) =>
          /\ runres \in {"running", "Ok"}
          /\ runres = "Ok" =>
               /\ index = Len(orig)
               /\ log = <<"[">> \o body \o <<"]">> \o body \o <<"|">>

\* C2: a step() with the cursor on ']' and no open block returns the
\* unmatched-close error, which run() returns to its caller, and changes
\* neither index, command string, block_starts, painter nor buffer; and "]"
\* alone fails on its first step with nothing executed and nothing drawn.
C2_UnmatchedCloseFailsClean ==
    /\ [][(/\ ret'.call = "step"
           /\ nth(chars(commands), index) = "]"
           /\ block_starts = <<>>)
          => (/\ ret'.res = UnmatchedClose
              /\ runres' = "Err"
              /\ UNCHANGED <<commands, index, block_starts, painter, buffer>>)]_vars
    /\ []((orig = <<"]">> /\ ret.call = "step")
          => (/\ ret.res = UnmatchedClose
              /\ runres = "Err"
              /\ log = <<>>
              /\ index = 0
              /\ buffer = CFRBuffer_new(buffer.width, buffer.height)))

\* a ']' found with no block open after the loop before it has run twice
C2_Witness ==
    /\ ret.call = "step"
    /\ ret.res = UnmatchedClose
    /\ runres = "Err"
    /\ orig = <<"[", "]", "]">>
    /\ index = 2
    /\ log = <<"[", "]", "|">>

\* C3: for every command string run() ends by returning Ok (step() reported
\* EndOfCommands) or by returning the unmatched-close error: whatever the
\* string, run() is either still stepping or has returned one of the two.
C3_RunReturnsOkOrErr == runres \in {"running", "Ok", "Err"}

\* C4: on a buffer with width >= 1 and height >= 1 the painter is always on a
\* cell: 0 <= x < width, 0 <= y < height, and y * width + x indexes data.
C4_PainterInBounds ==
    (buffer.width >= 1 /\ buffer.height >= 1) =>
      /\ 0 <= painter.x /\ painter.x < buffer.width
      /\ 0 <= painter.y /\ painter.y < buffer.height
      /\ painter.y * buffer.width + painter.x < Len(buffer.data)

\* two F steps of direction UpRight on a 3 x 2 buffer, from (1, 0): the first
\* wraps y over the upper edge, the second wraps x over the right edge
C4_Witness ==
    /\ orig = <<"R", "F", "F">>
    /\ runres = "Ok"
    /\ buffer.width = 3 /\ buffer.height = 2
    /\ painter.x = 0 /\ painter.y = 0

\* the displacement of each direction as the claim lists it
Displacement ==
    [Up |-> <<0, -1>>, UpRight |-> <<1, -1>>, Right |-> <<1, 0>>, DownRight |-> <<1, 1>>,
     Down |-> <<0, 1>>, DownLeft |-> <<-1, 1>>, Left |-> <<-1, 0>>, UpLeft |-> <<-1, -1>>]

\* C5: move_forward_and_draw takes the painter from (x, y) to
\* ((x + dx) mod width, (y + dy) mod height), (dx, dy) the displacement of
\* its direction; x and y wrap independently.
C5_MoveWrapsModulo ==
    [][ret'.call = "move_forward_and_draw" =>
         LET dd == Displacement[painter.direction]
         IN  /\ ret'.res = "Ok"
             /\ painter'.x = (painter.x + dd[1]) % buffer.width
             /\ painter'.y = (painter.y + dd[2]) % buffer.height]_vars

\* UpLeft from (0, 0) has landed on (width - 1, height - 1)
C5_Witness ==
    /\ ret.call = "move_forward_and_draw"
    /\ painter.direction = "UpLeft"
    /\ buffer.width = 3 /\ buffer.height = 3
    /\ painter.x = 2 /\ painter.y = 2

\* C6: move_forward_and_draw writes the painter's color into the cell
\* y * width + x of the new position and changes no other cell, nor the
\* buffer's size, nor the painter's color or direction.
C6_DrawsNewCellOnly ==
    [][ret'.call = "move_forward_and_draw" =>
         /\ buffer'.data = [buffer.data EXCEPT
                              ![painter'.y * buffer.width + painter'.x + 1] = painter.color]
         /\ buffer'.width = buffer.width
         /\ buffer'.height = buffer.height
         /\ painter'.color = painter.color
         /\ painter'.direction = painter.direction]_vars

\* a Red painter has moved Right from (0, 0) to (1, 0) and only that cell is Red
C6_Witness ==
    /\ ret.call = "move_forward_and_draw"
    /\ painter = [direction |-> "Right", color |-> "Red", x |-> 1, y |-> 0]
    /\ buffer.width = 3 /\ buffer.height = 2
    /\ buffer.data = <<"Black", "Red", "Black", "Black", "Black", "Black">>

\* the order of the colors and of the directions as the claims list them
ColorOrder == <<"White", "Black", "Blue", "Green", "Cyan", "Red", "Magenta", "Yellow">>

DirectionOrder == <<"Up", "UpRight", "Right", "DownRight", "Down", "DownLeft", "Left", "UpLeft">>

PlaceIn(order, v) == CHOOSE i \in 1..Len(order) : order[i] = v

\* the value k places after v, going round
Later(order, v, k) == order[((PlaceIn(order, v) - 1 + k) % Len(order)) + 1]

RECURSIVE change_color_times(_, _)
change_color_times(c, k) == IF k = 0 THEN c ELSE change_color(change_color_times(c, k - 1))

RECURSIVE rotate_times(_, _)
rotate_times(d, k) == IF k = 0 THEN d ELSE rotate(rotate_times(d, k - 1))

\* C7: change_color moves the color one place along White, Black, Blue,
\* Green, Cyan, Red, Magenta, Yellow, White and nothing else; from any color
\* the k-th of 8 calls gives the color k places on, the 8th the color itself.
C7_ColorCycle ==
    /\ [](\A k \in 1..8 :
            change_color_times(painter.color, k) = Later(ColorOrder, painter.color, k))
    /\ [](change_color_times(painter.color, 8) = painter.color)
    /\ [][ret'.call = "change_color" =>
            /\ painter' = [painter EXCEPT !.color = Later(ColorOrder, painter.color, 1)]
            /\ buffer' = buffer]_vars

\* change_color has taken a painter from Yellow round to White
C7_Witness ==
    /\ ret.call = "change_color"
    /\ painter.color = "White"
    /\ painter.direction = "Down"

\* C8: rotate moves the direction one place along Up, UpRight, Right,
\* DownRight, Down, DownLeft, Left, UpLeft, Up and nothing else; from any
\* direction the k-th of 8 calls gives the direction k places on, the 8th the
\* direction itself.
C8_DirectionCycle ==
    /\ [](\A k \in 1..8 :
            rotate_times(painter.direction, k) = Later(DirectionOrder, painter.direction, k))
    /\ [](rotate_times(painter.direction, 8) = painter.direction)
    /\ [][ret'.call = "rotate" =>
            /\ painter' = [painter EXCEPT !.direction = Later(DirectionOrder, painter.direction, 1)]
            /\ buffer' = buffer]_vars

\* rotate has taken a painter from UpLeft round to Up
C8_Witness ==
    /\ ret.call = "rotate"
    /\ painter.direction = "Up"
    /\ painter.color = "Cyan"

\* C9: a new executor has index 0, no open block, the string as given, and a
\* White painter facing Up at (floor((width - 1) / 2), floor((height - 1) / 2));
\* position() returns the painter's (x, y) and changes no state.
C9_InitialState ==
    /\ [](ret.call = "new" =>
            /\ index = 0
            /\ block_starts = <<>>
            /\ commands = orig
            /\ log = <<>>
            /\ painter = [direction |-> "Up", color |-> "White",
                          x |-> (buffer.width - 1) \div 2,
                          y |-> (buffer.height - 1) \div 2])
    /\ [][ret'.call = "position" =>
            /\ ret'.pos = <<painter.x, painter.y>>
            /\ UNCHANGED <<commands, index, block_starts, painter, buffer>>]_vars

\* position() on a new executor over a 2 x 2 buffer has returned (0, 0)
C9_Witness ==
    /\ ret.call = "position"
    /\ ret.pos = <<0, 0>>
    /\ index = 0
    /\ buffer.width = 2 /\ buffer.height = 2
    /\ commands = <<"[", "F", "]">>

\* b.data holds exactly b.width * b.height cells: the product fits in 32
\* bits and is the number of cells
ExactCells(b) ==
    /\ ~mul_overflows(b.width, b.height)
    /\ half_pair(Len(b.data)) = wrapping_mul(b.width, b.height)

\* a step on a constructed buffer keeps its width, height and number of cells
SizeKept ==
    runres \in {"built", "filled"} =>
        /\ buffer'.width = buffer.width
        /\ buffer'.height = buffer.height
        /\ Len(buffer'.data) = Len(buffer.data)

\* every cell of b.data is c
AllCells(b, c) == \A i \in DOMAIN b.data : b.data[i] = c

\* C11: for all widths and heights a constructed buffer holds exactly
\* width * height cells, all of one fill colour (Black as CFRBuffer::new
\* leaves it), and no later step changes its width, its height or its number
\* of cells.
C11_BufferHoldsAllCells ==
    /\ [](runres = "built" => ExactCells(buffer) /\ AllCells(buffer, "Black"))
    /\ [](runres = "filled" =>
            ExactCells(buffer) /\ \E c \in CFRColor : AllCells(buffer, c))
    /\ [][SizeKept]_vars

\* the step taken is a call of step()
StepCalled == ret'.call = "step"

\* the character under the cursor, NoChar when there is none
Cursor == nth(chars(commands), index)

\* the state of the executor and of its buffer is left as it was
StateKept == UNCHANGED <<commands, index, block_starts, painter, buffer>>

EndReportedRight ==
    StepCalled =>
        /\ (ret'.res = EndOfCommands) <=> (index >= Len(commands))
        /\ ret'.res = EndOfCommands => StateKept
        /\ runres = "Ok" => ret'.res = EndOfCommands /\ buffer' = buffer

\* C12: a call of step() returns Err("End of commands") exactly when index has
\* reached or passed the length of the command string (its len(), in bytes);
\* that call changes no state, and once run() has received the error every
\* later call returns it again and leaves the buffer as it was.
C12_EndOfCommandsIsStable == [][EndReportedRight]_vars

C12_Witness ==
    /\ orig = <<"F", "S", "F">>
    /\ runres = "Ok"
    /\ ret.call = "step"
    /\ ret.res = EndOfCommands
    /\ index = Len(commands)

\* the characters step() has an arm for
CommandChars == {"C", "F", "R", "S", "[", "]", "|"}

SkipsOtherCharacters ==
    StepCalled =>
        /\ ret'.res # Panic
        /\ Cursor \notin CommandChars \cup {NoChar} =>
              /\ ret'.res = "Ok"
              /\ index' = index + 1
              /\ UNCHANGED <<painter, buffer, block_starts, commands>>

\* C13: for every command string, multi-byte characters included, a step()
\* on a character outside C, F, R, S, [, ], | succeeds, changes neither
\* painter, buffer, block_starts nor the string and moves the cursor to the
\* next character; as long as index is below the length the cursor stands on
\* an existing character, and no step() aborts.
C13_OtherCharactersAreSkipped ==
    /\ [](index < Len(commands) => Cursor # NoChar)
    /\ [][SkipsOtherCharacters]_vars

PauseOnlyOnS ==
    StepCalled /\ ret'.res = "Ok" =>
        /\ ret'.sleep <=> Cursor = "S"
        /\ Cursor = "S" =>
              /\ index' = index + 1
              /\ UNCHANGED <<painter, buffer, block_starts, commands>>
        /\ Cursor = "]" => ~ret'.sleep

\* C14: a successful step() returns the pause flag true if and only if the
\* character it executed is 'S'; the 'S' step changes no painter, buffer,
\* block_starts or command string and advances index by one; the step of a
\* ']' that jumps back returns the flag false.
C14_PauseOnlyOnS == [][PauseOnlyOnS]_vars

C14_Witness ==
    /\ orig = <<"[", "S", "]">>
    /\ ret.call = "step"
    /\ ret.res = "Ok"
    /\ ret.sleep
    /\ index = 2
    /\ log = <<"[", "S">>

\* the number of bracket pairs open before character i of cs
DepthAt(cs, i) ==
    Cardinality({j \in 1..(i - 1) : cs[j] = "["})
        - Cardinality({j \in 1..(i - 1) : cs[j] = "]"})

\* every ']' of cs closes a '[' and every '[' is closed; no '|'
BalancedNoBar(cs) ==
    /\ \A i \in 1..(Len(cs) + 1) : DepthAt(cs, i) >= 0
    /\ DepthAt(cs, Len(cs) + 1) = 0
    /\ \A i \in 1..Len(cs) : cs[i] # "|"

RECURSIVE Pow2(_)
Pow2(d) == IF d = 0 THEN 1 ELSE 2 * Pow2(d - 1)

\* how many successful steps were taken with the cursor on character i
TimesExecuted(i) == Cardinality({k \in 1..Len(trail) : trail[k] = i - 1})

\* C15: when run() on a bracket-balanced string without '|' has ended, every
\* character other than a bracket that lies inside d nested bracket pairs has
\* been executed exactly 2^d times, whichever of C, F, R, S or a skipped
\* character it is.
C15_DepthDoubles ==
    (runres # "running" /\ BalancedNoBar(chars(orig))) =>
        \A i \in 1..Len(chars(orig)) :
            chars(orig)[i] \notin {"[", "]"} =>
                TimesExecuted(i) = Pow2(DepthAt(chars(orig), i))

\* cs with its character at cursor position i (0-based) replaced by c
WithCharAt(cs, i, c) == [cs EXCEPT ![i + 1] = c]

JumpsBackRight ==
    StepCalled /\ Cursor = "]" /\ block_starts # <<>> =>
        /\ ret'.res = "Ok"
        /\ block_starts' = SubSeq(block_starts, 1, Len(block_starts) - 1)
        /\ chars(commands') = WithCharAt(chars(commands), index, "|")
        /\ index' = block_starts[Len(block_starts)]
        /\ UNCHANGED <<painter, buffer>>

\* C16: for every command string, a step() on ']' with a non-empty
\* block_starts pops exactly the top entry, replaces exactly the character
\* under the cursor by '|' (every other character and the length of the
\* string as they were), sets index to the popped entry, and leaves painter
\* and buffer unchanged.
C16_JumpBackFrame == [][JumpsBackRight]_vars

ReopensAndOpensRight ==
    StepCalled =>
        /\ Cursor = "|" =>
              /\ ret'.res = "Ok"
              /\ chars(commands') = WithCharAt(chars(commands), index, "]")
              /\ index' = index + 1
              /\ UNCHANGED <<block_starts, painter, buffer>>
        /\ Cursor = "[" =>
              /\ ret'.res = "Ok"
              /\ block_starts' = Append(block_starts, index + 1)
              /\ index' = index + 1
              /\ UNCHANGED <<commands, painter, buffer>>

\* C17: for every command string, a step() on '|' replaces exactly the
\* character under the cursor by ']', advances index by one and leaves
\* block_starts, painter and buffer unchanged; a step() on '[' pushes
\* index + 1 onto block_starts, advances index by one and changes nothing
\* else.
C17_ReopenAndOpenFrame == [][ReopensAndOpensRight]_vars

CursorMovesRight ==
    StepCalled =>
        /\ ret'.res = "Ok" =>
              \/ index' = index + 1
              \/ /\ Cursor = "]"
                 /\ block_starts # <<>>
                 /\ index' = block_starts[Len(block_starts)]
                 /\ index' <= index
        /\ ret'.res # "Ok" => index' = index

\* C18: every successful step() either increases index by exactly 1 or is a
\* ']' step with a non-empty block_starts, which sets index to the popped
\* entry, never greater than the index of that ']'; a failing step() leaves
\* index unchanged.
C18_CursorMonotoneButJumpBack == [][CursorMovesRight]_vars

C18_Witness ==
    /\ orig = <<"[", "F", "]">>
    /\ commands = <<"[", "F", "|">>
    /\ log = <<"[", "F", "]">>
    /\ trail = <<0, 1, 2>>
    /\ index = 1
    /\ ret.res = "Ok"

\* cs holds the character c
Holds(cs, c) == \E i \in 1..Len(cs) : cs[i] = c

\* C19 as stated: the depth of block_starts is the number of loops entered
\* through their '[' and not yet left for good, so that whenever block_starts
\* is empty after a '[' has executed no loop has a repeat pass pending and
\* the string holds no '|' (the string given holding none).
C19_EmptyMeansUnrolled ==
    (/\ ~Holds(chars(orig), "|")
     /\ Holds(log, "[")
     /\ block_starts = <<>>) => ~Holds(chars(commands), "|")

DepthFollowsFirstPasses ==
    StepCalled =>
        Len(block_starts') = Len(block_starts)
            + (IF Cursor = "[" THEN 1 ELSE 0)
            - (IF Cursor = "]" /\ block_starts # <<>> THEN 1 ELSE 0)

\* C19, amended: the depth of block_starts is the number of loops in their
\* first pass: a step on '[' adds one entry, a step on ']' that finds an
\* entry removes one, and no other step changes the depth; block_starts can
\* thus be empty while the repeat pass of a loop is pending and the string
\* holds the '|' of its jump-back.
C19_DepthCountsFirstPasses == [][DepthFollowsFirstPasses]_vars

C19_Witness ==
    /\ orig = <<"[", "S", "]">>
    /\ log = <<"[", "S", "]">>
    /\ block_starts = <<>>
    /\ commands = <<"[", "S", "|">>
    /\ index = 1
    /\ runres = "running"

OnlyForwardDraws ==
    StepCalled =>
        /\ Cursor = "C" => /\ buffer' = buffer
                           /\ painter' = [painter EXCEPT !.color = painter'.color]
        /\ Cursor = "R" => /\ buffer' = buffer
                           /\ painter' = [painter EXCEPT !.direction = painter'.direction]
        /\ Cursor \notin {"C", "R", "F"} => UNCHANGED <<buffer, painter>>

\* C20: only 'F' steps touch the buffer or the position of the painter: a
\* 'C' step changes only the painter's color, an 'R' step only its direction,
\* and a step on 'S', '[', ']', '|' or any other character changes neither a
\* cell of the buffer nor the painter's position, color or direction.
C20_OnlyForwardDraws == [][OnlyForwardDraws]_vars

C20_Witness ==
    /\ orig = <<"C", "R", "S">>
    /\ log = <<"C", "R", "S">>
    /\ painter.color = "Black"
    /\ painter.direction = "UpRight"
    /\ \A i \in DOMAIN buffer.data : buffer.data[i] = "Black"
    /\ ret.sleep

\* how many entries of cs are c
CountOf(cs, c) == Cardinality({i \in 1..Len(cs) : cs[i] = c})

\* C21: in animation mode, for every interval >= 1, after each pause signal
\* has been processed the time accumulator is strictly less than the
\* interval, and after n pause signals exactly floor(20 * n / interval)
\* frames have been captured.
C21_AccumulatorBelowInterval ==
    (caller.animation /\ as_usize(caller.interval) >= 1) =>
        /\ lt_u32(caller.time, caller.interval)
        /\ Len(caller.frames) =
              (QUANTUM * CountOf(log, "S")) \div as_usize(caller.interval)

\* some prefix of cs holds more ']' than '['
OverClosed(cs) == \E i \in 1..(Len(cs) + 1) : DepthAt(cs, i) < 0

\* C22: for a command string without '|', run() returns the unmatched-close
\* error if and only if some prefix of the string as given holds more ']'
\* than '['; otherwise, an unclosed '[' included, it returns Ok.
C22_ErrIffOverClosed ==
    (runres \in {"Ok", "Err"} /\ ~Holds(chars(orig), "|")) =>
        (runres = "Err" <=> OverClosed(chars(orig)))

\* C23: for a command string without '|', at every reachable state the
\* string has the length it was given with and differs from the string as
\* given only where that has ']' and the current one '|'; when run() has
\* returned Ok the two are equal character for character.
C23_OnlyClosersFlip ==
    ~Holds(chars(orig), "|") =>
        /\ Len(chars(commands)) = Len(chars(orig))
        /\ \A i \in 1..Len(chars(orig)) :
              chars(commands)[i] # chars(orig)[i] =>
                  chars(orig)[i] = "]" /\ chars(commands)[i] = "|"
        /\ runres = "Ok" => chars(commands) = chars(orig)

\* a successful step has been taken with the cursor at i on the character c
Executed(i, c) == \E k \in 1..Len(trail) : trail[k] = i /\ log[k] = c

\* C24: for a command string given without '|', at every reachable state no
\* '|' stands at a position smaller than index, and every '|' of the string
\* stands for a ']' of the string as given whose jump-back has fired.
C24_BarsAheadOfCursor ==
    ~Holds(chars(orig), "|") =>
        \A i \in 1..Len(chars(commands)) :
            chars(commands)[i] = "|" =>
                /\ i - 1 >= index
                /\ i <= Len(chars(orig))
                /\ chars(orig)[i] = "]"
                /\ Executed(i - 1, "]")

\* C25: at every reachable state block_starts increases strictly from bottom
\* to top, every entry e satisfies 1 <= e <= index, and the character at
\* position e - 1 of the command string is '[': a jump-back lands right
\* after a '['.
C25_BlockStartsFollowOpeners ==
    /\ \A i \in 1..(Len(block_starts) - 1) : block_starts[i] < block_starts[i + 1]
    /\ \A i \in 1..Len(block_starts) :
          /\ 1 <= block_starts[i]
          /\ block_starts[i] <= index
          /\ nth(chars(commands), block_starts[i] - 1) = "["
====
